---- MODULE Spec2Model ----
(***************************************************************************)
(* Model of the video merge handlers of maruthi2426/4merger:               *)
(*   handlers/video_merge_processor.py  (process_merge_video,              *)
(*       execute_smart_merge, _upload_to_telegram, _upload_to_rclone)      *)
(*   handlers/video_merge_callbacks.py  (handle_merge_callbacks)           *)
(* A handler is a coroutine: every action below is the code that runs      *)
(* between two awaits.  The pc of a task names the await it is suspended   *)
(* at; the action that resumes it draws the result of that await, applies  *)
(* its effect and runs the synchronous code up to the next await.          *)
(***************************************************************************)
EXTENDS Integers, Sequences, FiniteSets, TLC

\* ------------------------------------------------------------ constants
\* "Max 20 videos per merge"
MAX_QUEUE_SIZE == 20
\* os.path.getsize(output_file) < 1024
MIN_OUTPUT_SIZE == 1024

\* ------------------------------------------------------------ bounds
NumUsers == 2
NumTasks == 2
MaxMsgs == 2
\* video messages are handled concurrently only while the queue is shorter than this
MaxOverlapLen == 2
\* a merge is triggered only while the queue holds at most this many videos
MaxMergeLen == 3
\* only the files of the first MaxLost queued videos may disappear from storage
MaxLost == 1

Users == 1..NumUsers
Tasks == 1..NumTasks
MsgIds == 1..MaxMsgs
\* the message a callback query comes from: a tracked one, or 0 for an untracked screen
QueryMsgs == 0..MaxMsgs
Paths == 1..(MAX_QUEUE_SIZE + NumTasks)

VARIABLES
  cfg,               \* environment: overlap of handlers, users online, which faults
                     \* occur, which upload modes the user chooses from
  videos,            \* queue.videos of each user's MergeQueue
  queue_message_id,  \* queue.queue_message_id (0 is None)
  upload_mode,       \* context.user_data["upload_mode"]
  operation,         \* context.user_data["operation"]
  disk,              \* source video files that exist on storage
  concat,            \* TEMP_FOLDER/concat_list.txt
  output,            \* TEMP_FOLDER/merged_video.mp4
  msgs,              \* the chat of each user: what every message shows
  task               \* the running handler coroutines

vars == <<cfg, videos, queue_message_id, upload_mode, operation, disk,
          concat, output, msgs, task>>

\* ------------------------------------------------------------ values
Absent == "absent"
Engines == {"telegram", "rclone", "ftp"}
Formats == {"video", "document"}

\* context.user_data.get("upload_mode"): None, or a dict with optional keys
NoneMode == [none |-> TRUE, engine |-> Absent, format |-> Absent]
Dict(e, f) == [none |-> FALSE, engine |-> e, format |-> f]
\* the choices the configuration step may store
UploadModes ==
  {NoneMode, Dict(Absent, Absent), Dict(Absent, "video"),
   Dict("telegram", Absent), Dict("telegram", "video"), Dict("telegram", "document"),
   Dict("rclone", Absent), Dict("ftp", Absent)}

\* truth value of the dict: None and {} are falsy
Truthy(m) == ~m.none /\ (m.engine # Absent \/ m.format # Absent)

NoFile == [exists |-> FALSE, lines |-> <<>>, size |-> 0, by |-> 0]
ManifestFile(ls, t) == [exists |-> TRUE, lines |-> ls, size |-> 0, by |-> t]
OutputFile(sz, t) == [exists |-> TRUE, lines |-> <<>>, size |-> sz, by |-> t]

\* sizes the external merge may leave behind
OutputSizes == {MIN_OUTPUT_SIZE - 1, MIN_OUTPUT_SIZE, MIN_OUTPUT_SIZE + 1}

\* the chat tracks the queue-summary messages; menus, prompts and selection
\* screens are untracked (message id 0)
\* texts on the status message of a merge run ("dismissed": it was deleted)
StatusTexts == {"none", "p0", "p5", "p95", "merge_failed_format", "merge_failed_corrupt",
                "invalid_mode", "merge_error", "rclone_done", "rclone_failed",
                "rclone_missing", "dismissed"}

Min(S) == CHOOSE x \in S : \A y \in S : x <= y

IdleTask ==
  [pc |-> "idle", kind |-> "none", user |-> 0,
   filepath |-> 0, target |-> 0,
   qmsg |-> 0, status_msg |-> FALSE, surface |-> "none", mode |-> NoneMode, len0 |-> 0,
   concat_file |-> FALSE, output_file |-> FALSE,
   wrote |-> <<>>, queued |-> <<>>, read |-> NoFile,
   rc |-> "none", size |-> 0,
   engine |-> "none", sent |-> "none", delivery |-> "none",
   outcome |-> "none", said |-> "none",
   qmid0 |-> 0, valid |-> FALSE, cleared |-> FALSE, errored |-> FALSE, raised |-> FALSE,
   why |-> "none", status_on |-> "none", markers |-> <<>>, closing |-> "none",
   remote |-> Absent, error |-> Absent, detail |-> "none", fault |-> "none",
   missed |-> {}, lost0 |-> {}, artifact |-> 0]

IdleTasks == {t \in Tasks : task[t].pc = "idle"}
\* cfg.overlap = "none": a handler runs to completion before the next update is
\* served; "adds": video messages are handled concurrently; "merges": a merge
\* trigger is served while the running merge awaits the external invocation (the
\* await that lasts minutes); "all": every update is
CanStart(kind) ==
  \/ cfg.overlap = "all"
  \/ \A t \in Tasks : task[t].pc = "idle"
  \/ cfg.overlap = "adds" /\ kind = "add" /\ \A t \in Tasks : task[t].kind \in {"none", "add"}
  \/ cfg.overlap = "merges" /\ kind = "merge"
       /\ \A t \in Tasks : task[t].pc \in {"idle", "m_ffmpeg_run"}

\* ids the chat may hand out: nothing shows them and nothing refers to them
Referenced(u) ==
  {queue_message_id[u]} \cup
  UNION {{task[t].qmsg, task[t].target} : t \in {x \in Tasks : task[x].user = u}}
FreeMsgs(u) == {m \in MsgIds : msgs[u][m] = "none" /\ m \notin Referenced(u)}
FreePaths ==
  {p \in Paths : /\ p \notin disk
                 /\ \A u \in Users : \A i \in 1..Len(videos[u]) : videos[u][i].file_path # p
                 /\ \A t \in Tasks : task[t].filepath # p}

Upd(t, r) == [task EXCEPT ![t] = r]

\* ------------------------------------------------------------ MergeQueue
VideoMetadata(p) == [file_path |-> p]

\* MergeQueue.add_video: appends while below capacity, tells whether it did
add_video_ok(q) == Len(q) < MAX_QUEUE_SIZE
add_video(q, v) == IF add_video_ok(q) THEN Append(q, v) ELSE q

QueuePaths(q) == {q[i].file_path : i \in 1..Len(q)}
\* MergeQueue.clear_all: deletes the files, empties the list, unbinds the summary
clear_all_disk(d, q) == d \ QueuePaths(q)

\* ------------------------------------------------------------ Init
Init ==
  /\ cfg = [overlap |-> "none", online |-> {1}, rmFaults |-> FALSE, chatFaults |-> FALSE,
            oldMenus |-> FALSE, modes |-> UploadModes]
  /\ videos = [u \in Users |-> <<>>]
  /\ queue_message_id = [u \in Users |-> 0]
  /\ upload_mode = [u \in Users |-> NoneMode]
  /\ operation = [u \in Users |-> "None"]
  /\ disk = {}
  /\ concat = NoFile
  /\ output = NoFile
  /\ msgs = [u \in Users |-> [m \in MsgIds |-> "none"]]
  /\ task = [t \in Tasks |-> IdleTask]

\* ------------------------------------------------------------ process_merge_video
\* the result of add_video is ignored: the success branch is always taken
AddBranch_AlwaysAdded(q) == "added"

\* if queue.add_video(metadata): ... else: ...
AddBranch(q) == IF add_video_ok(q) THEN "added" ELSE "full"

\* the await the handler reaches first once the video was appended
AfterAdd(q, qmid) ==
  IF Len(q) = 1 THEN "a_reply_summary"
  ELSE IF qmid # 0 THEN "a_delete" ELSE "a_reply_summary"

\* a video message arrives while operation = "merge_add"; runs to the first await
AddStart(u, exists, probe_ok) ==
  /\ u \in cfg.online /\ CanStart("add")
  /\ (\E x \in Tasks : task[x].pc # "idle") => Len(videos[u]) < MaxOverlapLen
  /\ operation[u] = "merge_add"
  /\ IdleTasks # {} /\ FreePaths # {}
  /\ LET t == Min(IdleTasks)
         p == Min(FreePaths)
         q == videos[u]
         q2 == add_video(q, VideoMetadata(p))
         base == [IdleTask EXCEPT !.kind = "add", !.user = u, !.filepath = p,
                                  !.len0 = Len(q), !.queued = q,
                                  !.qmid0 = queue_message_id[u]]
     IN /\ disk' = IF exists THEN disk \cup {p} ELSE disk
        /\ IF ~exists
           THEN /\ videos' = videos
                /\ task' = Upd(t, [base EXCEPT !.pc = "a_reply_missing", !.why = "missing"])
           ELSE IF ~probe_ok
           THEN /\ videos' = videos
                /\ task' = Upd(t, [base EXCEPT !.pc = "a_reply_probe", !.why = "probe"])
           ELSE IF AddBranch(q) = "added"
           THEN /\ videos' = [videos EXCEPT ![u] = q2]
                /\ task' = Upd(t, [base EXCEPT !.pc = AfterAdd(q2, queue_message_id[u]),
                                               !.target = queue_message_id[u],
                                               !.valid = TRUE])
           ELSE /\ videos' = [videos EXCEPT ![u] = q2]
                /\ task' = Upd(t, [base EXCEPT !.pc = "a_reply_full", !.valid = TRUE,
                                               !.why = "full"])
  /\ UNCHANGED <<cfg, queue_message_id, upload_mode, operation, concat, output, msgs>>

\* reply_text("File not found") returned
AddMissingReplied(t, ok) ==
  /\ task[t].pc = "a_reply_missing"
  /\ IF ok
     THEN /\ operation' = [operation EXCEPT ![task[t].user] = "None"]
          /\ task' = Upd(t, [task[t] EXCEPT !.pc = "done", !.said = "file_not_found",
                                            !.outcome = "rejected"])
     ELSE /\ operation' = operation
          /\ task' = Upd(t, [task[t] EXCEPT !.pc = "a_reply_error"])
  /\ UNCHANGED <<cfg, videos, queue_message_id, upload_mode, disk, concat, output, msgs>>

\* reply_text("Cannot read video file") returned; then file_manager.delete_file
AddProbeReplied(t, ok) ==
  /\ task[t].pc = "a_reply_probe"
  /\ IF ok
     THEN /\ disk' = disk \ {task[t].filepath}
          /\ operation' = [operation EXCEPT ![task[t].user] = "None"]
          /\ task' = Upd(t, [task[t] EXCEPT !.pc = "done", !.said = "cannot_read",
                                            !.outcome = "rejected"])
     ELSE /\ disk' = disk
          /\ operation' = operation
          /\ task' = Upd(t, [task[t] EXCEPT !.pc = "a_reply_error"])
  /\ UNCHANGED <<cfg, videos, queue_message_id, upload_mode, concat, output, msgs>>

\* bot.delete_message(queue.queue_message_id) returned; a failure is only logged
AddOldDeleted(t, ok) ==
  /\ task[t].pc = "a_delete"
  /\ ~ok => cfg.chatFaults
  /\ LET u == task[t].user
     IN msgs' = IF ok THEN [msgs EXCEPT ![u][task[t].target] = "none"] ELSE msgs
  /\ task' = Upd(t, [task[t] EXCEPT !.pc = "a_reply_summary"])
  /\ UNCHANGED <<cfg, videos, queue_message_id, upload_mode, operation, disk, concat, output>>

\* reply_text(queue_text) returned: bind the fresh summary message
AddSummarySent(t, ok) ==
  /\ task[t].pc = "a_reply_summary"
  /\ LET u == task[t].user
     IN IF ok
        THEN /\ FreeMsgs(u) # {}
             /\ LET m == Min(FreeMsgs(u))
                IN /\ msgs' = [msgs EXCEPT ![u][m] = "summary"]
                   /\ queue_message_id' = [queue_message_id EXCEPT ![u] = m]
             /\ operation' = [operation EXCEPT ![u] = "None"]
             /\ task' = Upd(t, [task[t] EXCEPT !.pc = "done", !.said = "queue_summary",
                                               !.outcome = "added"])
        ELSE /\ UNCHANGED <<msgs, queue_message_id, operation>>
             /\ task' = Upd(t, [task[t] EXCEPT !.pc = "a_reply_error"])
  /\ UNCHANGED <<cfg, videos, upload_mode, disk, concat, output>>

\* reply_text("Cannot add video to queue / Max 20 videos per merge") returned
AddFullReplied(t, ok) ==
  /\ task[t].pc = "a_reply_full"
  /\ IF ok
     THEN /\ operation' = [operation EXCEPT ![task[t].user] = "None"]
          /\ task' = Upd(t, [task[t] EXCEPT !.pc = "done", !.said = "max_20_videos",
                                            !.outcome = "rejected"])
     ELSE /\ operation' = operation
          /\ task' = Upd(t, [task[t] EXCEPT !.pc = "a_reply_error"])
  /\ UNCHANGED <<cfg, videos, queue_message_id, upload_mode, disk, concat, output, msgs>>

\* outer except: reply_text("Error: ...") returned, or raised out of the handler
AddErrorReplied(t, ok) ==
  /\ task[t].pc = "a_reply_error"
  /\ IF ok
     THEN /\ operation' = [operation EXCEPT ![task[t].user] = "None"]
          /\ task' = Upd(t, [task[t] EXCEPT !.pc = "done", !.said = "error",
                                            !.outcome = "error"])
     ELSE /\ operation' = operation
          /\ task' = Upd(t, [task[t] EXCEPT !.pc = "done", !.outcome = "error",
                                            !.raised = TRUE])
  /\ UNCHANGED <<cfg, videos, queue_message_id, upload_mode, disk, concat, output, msgs>>

\* ------------------------------------------------------------ handle_merge_callbacks
\* a callback query arrives from message m of the user's chat
\* (the user presses the buttons of the newest menu, unless cfg.oldMenus)
Callback(u, m) ==
  /\ u \in cfg.online /\ CanStart("callback")
  /\ IdleTasks # {}
  /\ m # 0 => msgs[u][m] = "summary"
  /\ m = 0 => (cfg.oldMenus \/ \A x \in MsgIds : msgs[u][x] # "summary")

\* the edit of the query's message fails only in an environment with chat faults
EditOutcome(ok) == ~ok => cfg.chatFaults

\* edit_message_text / show_merge_menu(edit=True) on the message of the query:
\* a summary that is overwritten stops being one
Screen(u, m, ok) == IF ok /\ m # 0 THEN [msgs EXCEPT ![u][m] = "none"] ELSE msgs

CallbackTask(u, m, name) ==
  [IdleTask EXCEPT !.kind = name, !.user = u, !.qmsg = m, !.pc = "done",
                   !.len0 = Len(videos[u]), !.queued = videos[u],
                   !.qmid0 = queue_message_id[u], !.mode = upload_mode[u],
                   !.lost0 = QueuePaths(videos[u]) \ disk]

\* callback_data == "merge_add_video"
MergeAddVideo(u, m, ok) ==
  /\ Callback(u, m) /\ EditOutcome(ok)
  /\ operation' = [operation EXCEPT ![u] = "merge_add"]
  /\ msgs' = Screen(u, m, ok)
  /\ task' = Upd(Min(IdleTasks),
                 [CallbackTask(u, m, "merge_add_video") EXCEPT
                    !.said = IF ok THEN "none" ELSE "error"])
  /\ UNCHANGED <<cfg, videos, queue_message_id, upload_mode, disk, concat, output>>

\* the handler shows the menu without calling queue.clear_all()
MergeClear_SkipsClearAll(u, m, ok) ==
  /\ Callback(u, m) /\ EditOutcome(ok)
  /\ msgs' = Screen(u, m, ok)
  /\ task' = Upd(Min(IdleTasks),
                 [CallbackTask(u, m, "merge_clear") EXCEPT
                    !.cleared = TRUE,
                    !.said = IF ok THEN "queue_cleared" ELSE "error"])
  /\ UNCHANGED <<cfg, videos, queue_message_id, disk, upload_mode, operation, concat, output>>

\* callback_data == "merge_clear": queue.clear_all(), then the menu replaces the message
MergeClear(u, m, ok) ==
  /\ Callback(u, m) /\ EditOutcome(ok)
  /\ disk' = clear_all_disk(disk, videos[u])
  /\ videos' = [videos EXCEPT ![u] = <<>>]
  /\ queue_message_id' = [queue_message_id EXCEPT ![u] = 0]
  /\ msgs' = Screen(u, m, ok)
  /\ task' = Upd(Min(IdleTasks),
                 [CallbackTask(u, m, "merge_clear") EXCEPT
                    !.cleared = TRUE,
                    !.said = IF ok THEN "queue_cleared" ELSE "error"])
  /\ UNCHANGED <<cfg, upload_mode, operation, concat, output>>

\* what merge_confirm does with the message it came from
ConfirmScreen(q, mode) ==
  IF Len(q) < 2 THEN "need_2_videos"
  ELSE IF ~Truthy(mode) THEN "select_upload_mode"
  ELSE IF mode.engine = "telegram" THEN "format_select"
  ELSE IF mode.engine = "rclone" THEN "rename_options"
  ELSE "none"

\* callback_data == "merge_confirm"
MergeConfirm(u, m, ok) ==
  /\ Callback(u, m) /\ EditOutcome(ok)
  /\ LET scr == ConfirmScreen(videos[u], upload_mode[u])
     IN /\ msgs' = Screen(u, m, ok /\ scr \in {"format_select", "rename_options"})
        /\ task' = Upd(Min(IdleTasks),
                       [CallbackTask(u, m, "merge_confirm") EXCEPT
                          !.outcome = IF scr \in {"need_2_videos", "select_upload_mode"}
                                      THEN "rejected" ELSE "none",
                          !.said = IF scr = "none" THEN "none"
                                   ELSE IF ok THEN scr ELSE "error"])
  /\ UNCHANGED <<cfg, videos, queue_message_id, upload_mode, operation, disk, concat, output>>

\* callback_data in {"video_merge", "merge_menu", "merge_cancel"}: show_merge_menu(edit=True)
MergeMenu(u, m, ok) ==
  /\ Callback(u, m) /\ EditOutcome(ok)
  /\ msgs' = Screen(u, m, ok)
  /\ task' = Upd(Min(IdleTasks),
                 [CallbackTask(u, m, "merge_menu") EXCEPT
                    !.said = IF ok THEN "none" ELSE "error"])
  /\ UNCHANGED <<cfg, videos, queue_message_id, upload_mode, operation, disk, concat, output>>

\* ------------------------------------------------------------ environment
\* the upload-mode configuration step stores the user's choice
SelectUploadMode(u, md) ==
  /\ u \in cfg.online /\ CanStart("config")
  /\ md \in cfg.modes /\ upload_mode[u] # md
  /\ upload_mode' = [upload_mode EXCEPT ![u] = md]
  /\ UNCHANGED <<cfg, videos, queue_message_id, operation, disk, concat, output, msgs, task>>

\* a queued file disappears from storage behind the queue's back
FileLost(u, i) ==
  /\ u \in cfg.online /\ CanStart("storage")
  /\ i \in 1..MaxLost /\ i <= Len(videos[u])
  /\ videos[u][i].file_path \in disk
  /\ disk' = disk \ {videos[u][i].file_path}
  /\ UNCHANGED <<cfg, videos, queue_message_id, upload_mode, operation, concat, output,
                 msgs, task>>

\* the handler has returned: the files no queue lists are no longer tracked
Retire(t) ==
  /\ task[t].pc = "done"
  /\ LET held == UNION {QueuePaths(videos[v]) : v \in Users} \cup
                 {task[x].filepath : x \in Tasks \ {t}}
     IN disk' = disk \cap held
  /\ task' = Upd(t, IdleTask)
  /\ UNCHANGED <<cfg, videos, queue_message_id, upload_mode, operation, concat, output, msgs>>

\* ------------------------------------------------------------ execute_smart_merge
\* the queue-size guard off by one: a single video passes
PreconditionsOk_OneVideo(mode, q) ==
  /\ Truthy(mode)
  /\ ~(mode.engine = "telegram" /\ mode.format = Absent)
  /\ ~(Len(q) < 1)

\* the three guards in front of the pipeline
PreconditionsOk(mode, q) ==
  /\ Truthy(mode)
  /\ ~(mode.engine = "telegram" /\ mode.format = Absent)
  /\ ~(Len(q) < 2)

\* the alert answered by the first guard that fails
RejectAlert(mode, q) ==
  IF ~Truthy(mode) THEN "select_upload_mode"
  ELSE IF mode.engine = "telegram" /\ mode.format = Absent THEN "select_format"
  ELSE "need_2_videos"

\* os.path.abspath(video.file_path).replace("\\", "/")
AbsPath(p) == <<"cwd", p>>
\* f.write(f"file '{abs_path}'\n")
ManifestLine(v) == [directive |-> "file", path |-> AbsPath(v.file_path)]
\* the loop runs over the queue back to front
Manifest_Reversed(q) == [i \in 1..Len(q) |-> ManifestLine(q[Len(q) + 1 - i])]

\* the loop over queue.videos that fills concat_list.txt
Manifest(q) == [i \in 1..Len(q) |-> ManifestLine(q[i])]

\* the size test dropped: any output that exists is delivered
OutputOk_NoSizeCheck(out) == out.exists

\* not (not os.path.exists(output_file) or os.path.getsize(output_file) < 1024)
OutputOk(out) == out.exists /\ ~(out.size < MIN_OUTPUT_SIZE)

\* upload_mode.get("engine", "telegram")
DispatchEngine(mode) == IF mode.engine = Absent THEN "telegram" ELSE mode.engine

\* os.remove raising is possible only in an environment with removal faults
RemoveFaults == IF cfg.rmFaults THEN {"none", "concat", "output"} ELSE {"none"}

\* the cleanup forgets the output artifact
CleanupFiles_KeepsOutput(tr, first, fault) ==
  [concat |-> IF tr.concat_file /\ concat.exists THEN NoFile ELSE concat,
   output |-> output, failed |-> "none"]

\* try: if exists(first): remove(first); if exists(second): remove(second); except: pass
\* (failed: the file whose os.remove raised)
CleanupFiles(tr, first, fault) ==
  LET wantC == tr.concat_file /\ concat.exists
      wantO == tr.output_file /\ output.exists
      failC == wantC /\ fault = "concat"
      failO == wantO /\ fault = "output"
      stopC == first = "output" /\ failO
      stopO == first = "concat" /\ failC
  IN [concat |-> IF wantC /\ ~failC /\ ~stopC THEN NoFile ELSE concat,
      output |-> IF wantO /\ ~failO /\ ~stopO THEN NoFile ELSE output,
      failed |-> IF failC /\ ~stopC THEN "concat"
                 ELSE IF failO /\ ~stopO THEN "output" ELSE "none"]

\* the "Progress: N%" line of a status text (-1: the text carries none)
Percent(txt) ==
  CASE txt = "p0" -> 0
    [] txt = "p5" -> 5
    [] txt = "p95" -> 95
    [] OTHER -> -1

\* the stages report 0% and 95% the wrong way round
ProgressText_Swapped(stage) ==
  CASE stage = "preparing" -> "p0"
    [] stage = "merging" -> "p95"
    [] stage = "uploading" -> "p5"

\* the status text of each stage: "Progress: 0%", "Progress: 5%", "Progress: 95%"
ProgressText(stage) ==
  CASE stage = "preparing" -> "p0"
    [] stage = "merging" -> "p5"
    [] stage = "uploading" -> "p95"

\* status_msg.edit_text(txt): the status message shows txt when the edit succeeds;
\* markers keeps the progress lines the user has seen and the message they were
\* on, missed the progress lines whose edit failed
Show(tr, txt, ok) ==
  IF ok
  THEN [tr EXCEPT !.surface = txt,
                  !.markers = IF Percent(txt) >= 0
                              THEN Append(@, [pct |-> Percent(txt), on |-> tr.status_on])
                              ELSE @]
  ELSE [tr EXCEPT !.missed = IF Percent(txt) >= 0 THEN @ \cup {Percent(txt)} ELSE @]

\* while merge runs overlap, a run that has returned is retired before the other
\* run goes on (the record of a returned run only remembers how it ended)
Settled(t) ==
  cfg.overlap = "merges" => \A x \in Tasks \ {t} : task[x].pc # "done"

\* a status-display operation of run t may fail; while merge runs overlap the
\* failures are left to the runs that are alone
DisplayOutcome(t, ok) ==
  ~ok => (cfg.overlap # "merges" \/ \A x \in Tasks \ {t} : task[x].pc = "idle")

\* the last display operation of a run and whether it succeeded
Closed(tr, ok) == [tr EXCEPT !.closing = IF ok THEN "ok" ELSE "failed"]

\* a callback query reaches execute_smart_merge; runs to the first await
ExecStart(u) ==
  /\ u \in cfg.online /\ CanStart("merge")
  /\ Len(videos[u]) <= MaxMergeLen
  /\ (\E x \in Tasks : task[x].pc # "idle") => Len(videos[u]) <= MaxOverlapLen
  /\ IdleTasks # {}
  /\ cfg.oldMenus \/ \A x \in MsgIds : msgs[u][x] # "summary"
  /\ LET t == Min(IdleTasks)
         mode == upload_mode[u]
         base == [CallbackTask(u, 0, "merge") EXCEPT !.pc = "m_edit0"]
     IN IF PreconditionsOk(mode, videos[u])
        THEN task' = Upd(t, base)
        ELSE task' = Upd(t, [base EXCEPT !.pc = "done", !.outcome = "rejected",
                                         !.said = RejectAlert(mode, videos[u])])
  /\ UNCHANGED <<cfg, videos, queue_message_id, upload_mode, operation, disk, concat,
                 output, msgs>>

\* the except block reports the error on the status message, or in a new message
ToError(tr) == [tr EXCEPT !.pc = "m_error_msg"]

\* query.edit_message_text(0%) returned: the screen the query came from becomes
\* the status message; on failure a new status message is sent
ExecEdit0(t, ok) ==
  /\ task[t].pc = "m_edit0" /\ Settled(t) /\ DisplayOutcome(t, ok)
  /\ task' = Upd(t, IF ok
                    THEN Show([task[t] EXCEPT !.pc = "m_sleep", !.status_msg = TRUE,
                                              !.status_on = "query"],
                              ProgressText("preparing"), TRUE)
                    ELSE [task[t] EXCEPT !.pc = "m_send0"])
  /\ UNCHANGED <<cfg, videos, queue_message_id, upload_mode, operation, disk, concat,
                 output, msgs>>

\* context.bot.send_message(0%) returned or raised
ExecSend0(t, ok) ==
  /\ task[t].pc = "m_send0" /\ Settled(t) /\ DisplayOutcome(t, ok)
  /\ task' = Upd(t, IF ok
                    THEN Show([task[t] EXCEPT !.pc = "m_sleep", !.status_msg = TRUE,
                                              !.status_on = "fresh"],
                              ProgressText("preparing"), TRUE)
                    ELSE ToError(task[t]))
  /\ UNCHANGED <<cfg, videos, queue_message_id, upload_mode, operation, disk, concat,
                 output, msgs>>

\* asyncio.sleep returned: Stage 1 writes the manifest and sizes the sources
ExecPrepare(t) ==
  /\ task[t].pc = "m_sleep" /\ Settled(t)
  /\ LET u == task[t].user
         q == videos[u]
         tr == [task[t] EXCEPT !.concat_file = TRUE, !.wrote = Manifest(q), !.queued = q]
     IN /\ concat' = ManifestFile(Manifest(q), t)
        /\ IF QueuePaths(q) \subseteq disk
           THEN task' = Upd(t, [tr EXCEPT !.pc = "m_edit5", !.output_file = TRUE])
           ELSE task' = Upd(t, ToError(tr))
  /\ UNCHANGED <<cfg, videos, queue_message_id, upload_mode, operation, disk, output, msgs>>

\* status_msg.edit_text(5%) returned; a failure is only logged
ExecEdit5(t, ok) ==
  /\ task[t].pc = "m_edit5" /\ Settled(t) /\ DisplayOutcome(t, ok)
  /\ task' = Upd(t, [Show(task[t], ProgressText("merging"), ok) EXCEPT !.pc = "m_ffmpeg"])
  /\ UNCHANGED <<cfg, videos, queue_message_id, upload_mode, operation, disk, concat,
                 output, msgs>>

\* the worker thread starts ffmpeg, which opens the manifest
FfmpegStart(t) ==
  /\ task[t].pc = "m_ffmpeg" /\ Settled(t)
  /\ task' = Upd(t, [task[t] EXCEPT !.pc = "m_ffmpeg_run", !.read = concat])
  /\ UNCHANGED <<cfg, videos, queue_message_id, upload_mode, operation, disk, concat,
                 output, msgs>>

\* a timeout starts the external merge again instead of ending the run
AfterFfmpeg_RetriesTimeout(tr, rc, out) ==
  IF rc = "timeout" THEN [tr EXCEPT !.pc = "m_ffmpeg"]
  ELSE IF rc # "zero" THEN [tr EXCEPT !.pc = "m_fail_format"]
  ELSE IF ~OutputOk(out) THEN [tr EXCEPT !.pc = "m_fail_corrupt"]
  ELSE [tr EXCEPT !.pc = "m_edit95"]

\* what follows asyncio.to_thread(run_ffmpeg): the returncode and output checks
AfterFfmpeg(tr, rc, out) ==
  IF rc = "timeout" THEN ToError(tr)
  ELSE IF rc # "zero" THEN [tr EXCEPT !.pc = "m_fail_format"]
  ELSE IF ~OutputOk(out) THEN [tr EXCEPT !.pc = "m_fail_corrupt"]
  ELSE [tr EXCEPT !.pc = "m_edit95"]

\* subprocess.run returned or raised TimeoutExpired; sz = 0: no output was written
ExecFfmpegDone(t, rc, sz) ==
  /\ task[t].pc = "m_ffmpeg_run" /\ Settled(t)
  /\ rc \in {"zero", "nonzero", "timeout"}
  /\ sz \in OutputSizes \cup {0}
  /\ ~task[t].read.exists => rc = "nonzero"
  /\ LET out == IF sz = 0 THEN output ELSE OutputFile(sz, t)
         tr == [task[t] EXCEPT !.rc = rc,
                               !.size = IF out.exists THEN out.size ELSE 0]
     IN /\ output' = out
        /\ task' = Upd(t, AfterFfmpeg(tr, rc, out))
  /\ UNCHANGED <<cfg, videos, queue_message_id, upload_mode, operation, disk, concat, msgs>>

\* edit_text(MERGE FAILED: compatible formats) returned; cleanup; return
ExecFailFormatShown(t, ok, fault) ==
  /\ task[t].pc = "m_fail_format" /\ Settled(t) /\ DisplayOutcome(t, ok)
  /\ fault \in RemoveFaults
  /\ LET c == CleanupFiles(task[t], "concat", fault)
     IN /\ concat' = c.concat
        /\ output' = c.output
        /\ task' = Upd(t, [Closed(Show(task[t], "merge_failed_format", ok), ok) EXCEPT
                             !.pc = "done", !.outcome = "failed", !.fault = c.failed])
  /\ UNCHANGED <<cfg, videos, queue_message_id, upload_mode, operation, disk, msgs>>

\* edit_text(MERGE FAILED: output corrupted) returned; cleanup; return
ExecFailCorruptShown(t, ok, fault) ==
  /\ task[t].pc = "m_fail_corrupt" /\ Settled(t) /\ DisplayOutcome(t, ok)
  /\ fault \in RemoveFaults
  /\ LET c == CleanupFiles(task[t], "output", fault)
     IN /\ concat' = c.concat
        /\ output' = c.output
        /\ task' = Upd(t, [Closed(Show(task[t], "merge_failed_corrupt", ok), ok) EXCEPT
                             !.pc = "done", !.outcome = "failed", !.fault = c.failed])
  /\ UNCHANGED <<cfg, videos, queue_message_id, upload_mode, operation, disk, msgs>>

\* the engine dispatch, up to the await of the chosen delivery; artifact is the
\* run whose invocation wrote the file handed to the delivery
Dispatch(tr, out, available) ==
  LET e == DispatchEngine(tr.mode)
  IN IF e = "telegram"
     THEN IF out.exists
          THEN [tr EXCEPT !.pc = "m_send", !.engine = "telegram", !.artifact = out.by]
          ELSE ToError([tr EXCEPT !.engine = "telegram", !.delivery = "failed"])
     ELSE IF e = "rclone"
     THEN IF available
          THEN [tr EXCEPT !.pc = "m_rclone", !.engine = "rclone", !.artifact = out.by]
          ELSE [tr EXCEPT !.pc = "m_rclone_msg", !.engine = "rclone",
                          !.delivery = "unavailable"]
     ELSE [tr EXCEPT !.pc = "m_invalid"]

\* edit_text(95%) returned; dispatch on the engine
ExecEdit95(t, ok, available) ==
  /\ task[t].pc = "m_edit95" /\ Settled(t) /\ DisplayOutcome(t, ok)
  /\ task' = Upd(t, Dispatch(Show(task[t], ProgressText("uploading"), ok), output, available))
  /\ UNCHANGED <<cfg, videos, queue_message_id, upload_mode, operation, disk, concat,
                 output, msgs>>

\* _upload_to_telegram: send_document / send_video returned or raised
ExecSent(t, ok) ==
  /\ task[t].pc = "m_send" /\ Settled(t)
  /\ task' = Upd(t, IF ok
                    THEN [task[t] EXCEPT !.pc = "m_delete", !.delivery = "delivered",
                            !.sent = IF task[t].mode.format = "document"
                                     THEN "document" ELSE "video"]
                    ELSE ToError([task[t] EXCEPT !.delivery = "failed"]))
  /\ UNCHANGED <<cfg, videos, queue_message_id, upload_mode, operation, disk, concat,
                 output, msgs>>

\* "# Cleanup" after the dispatch: queue.clear_all(), then both removes
FinalCleanup(t, tr, fault) ==
  LET u == tr.user
      c == CleanupFiles(tr, "output", fault)
  IN /\ disk' = clear_all_disk(disk, videos[u])
     /\ videos' = [videos EXCEPT ![u] = <<>>]
     /\ queue_message_id' = [queue_message_id EXCEPT ![u] = 0]
     /\ concat' = c.concat
     /\ output' = c.output
     /\ task' = Upd(t, [tr EXCEPT !.pc = "done", !.cleared = TRUE, !.fault = c.failed,
                                  !.outcome = IF tr.delivery = "delivered"
                                              THEN "completed" ELSE "failed"])

\* _upload_to_telegram: status_msg.delete() returned or raised
ExecDeleted(t, ok, fault) ==
  /\ task[t].pc = "m_delete" /\ Settled(t) /\ DisplayOutcome(t, ok)
  /\ fault \in RemoveFaults
  /\ IF ok
     THEN FinalCleanup(t, Closed([task[t] EXCEPT !.surface = "dismissed"], TRUE), fault)
     ELSE /\ task' = Upd(t, ToError(Closed(task[t], FALSE)))
          /\ UNCHANGED <<videos, queue_message_id, disk, concat, output>>
  /\ UNCHANGED <<cfg, upload_mode, operation, msgs>>

\* the import failure is reported with the text of a failed upload
RcloneText_Conflated(delivery) ==
  IF delivery = "delivered" THEN "rclone_done" ELSE "rclone_failed"

\* the text _upload_to_rclone puts on the status message
RcloneText(delivery) ==
  IF delivery = "delivered" THEN "rclone_done"
  ELSE IF delivery = "unavailable" THEN "rclone_missing"
  ELSE "rclone_failed"

\* what rclone_driver hands back: a result dict, or an exception
RcloneResults == {"success", "failure", "raise", "raise_import"}
RemoteNames == {Absent, "gdrive"}
ErrorDetails == {Absent, "quota exceeded"}

\* result.get('remote', 'Unknown') / result.get('error', 'Unknown error') / str(e)
RcloneDetail(tr) ==
  IF tr.delivery = "delivered"
  THEN IF tr.remote = Absent THEN "Unknown" ELSE tr.remote
  ELSE IF tr.delivery = "unavailable" THEN "none"
  ELSE IF tr.error = Absent THEN "Unknown error" ELSE tr.error

\* _upload_to_rclone: rclone_driver returned a result or raised; an ImportError it
\* raises is caught by the same clause as a failed import
ExecRcloneReturned(t, res, info) ==
  /\ task[t].pc = "m_rclone" /\ Settled(t)
  /\ res \in RcloneResults
  /\ res = "success" => info \in RemoteNames
  /\ res = "failure" => info \in ErrorDetails
  /\ res = "raise" => info \in ErrorDetails \ {Absent}
  /\ res = "raise_import" => info = Absent
  /\ task' = Upd(t, [task[t] EXCEPT
                        !.pc = "m_rclone_msg",
                        !.remote = IF res = "success" THEN info ELSE Absent,
                        !.error = IF res \in {"failure", "raise"} THEN info ELSE Absent,
                        !.delivery = IF res = "success" THEN "delivered"
                                     ELSE IF res = "raise_import" THEN "unavailable"
                                     ELSE "failed"])
  /\ UNCHANGED <<cfg, videos, queue_message_id, upload_mode, operation, disk, concat,
                 output, msgs>>

\* _upload_to_rclone: the closing edit_text returned; a failure is swallowed
ExecRcloneShown(t, ok, fault) ==
  /\ task[t].pc = "m_rclone_msg" /\ Settled(t) /\ DisplayOutcome(t, ok)
  /\ fault \in RemoveFaults
  /\ LET shown == Show(task[t], RcloneText(task[t].delivery), ok)
         tr == IF ok THEN [shown EXCEPT !.detail = RcloneDetail(task[t])] ELSE shown
     IN FinalCleanup(t, Closed(tr, ok), fault)
  /\ UNCHANGED <<cfg, upload_mode, operation, msgs>>

\* edit_text("Invalid upload mode configured") returned or raised
ExecInvalidShown(t, ok, fault) ==
  /\ task[t].pc = "m_invalid" /\ Settled(t) /\ DisplayOutcome(t, ok)
  /\ fault \in RemoveFaults
  /\ IF ok
     THEN FinalCleanup(t, Closed(Show(task[t], "invalid_mode", TRUE), TRUE), fault)
     ELSE /\ task' = Upd(t, ToError(Closed(task[t], FALSE)))
          /\ UNCHANGED <<videos, queue_message_id, disk, concat, output>>
  /\ UNCHANGED <<cfg, upload_mode, operation, msgs>>

\* except Exception: the "Merge error: <text>" report returned; cleanup on error
ExecErrorShown(t, ok, fault) ==
  /\ task[t].pc = "m_error_msg" /\ Settled(t) /\ DisplayOutcome(t, ok)
  /\ fault \in RemoveFaults
  /\ LET c == CleanupFiles(task[t], "concat", fault)
         tr == Closed(IF task[t].status_msg
                      THEN Show(task[t], "merge_error", ok)
                      ELSE [task[t] EXCEPT !.said = IF ok THEN "merge_error" ELSE @], ok)
     IN /\ concat' = c.concat
        /\ output' = c.output
        /\ task' = Upd(t, [tr EXCEPT !.pc = "done", !.outcome = "failed",
                                     !.errored = TRUE, !.fault = c.failed])
  /\ UNCHANGED <<cfg, videos, queue_message_id, upload_mode, operation, disk, msgs>>

\* ------------------------------------------------------------ specification
Next ==
  \/ \E u \in Users, e \in BOOLEAN, p \in BOOLEAN : AddStart(u, e, p)
  \/ \E t \in Tasks, ok \in BOOLEAN : AddMissingReplied(t, ok)
  \/ \E t \in Tasks, ok \in BOOLEAN : AddProbeReplied(t, ok)
  \/ \E t \in Tasks, ok \in BOOLEAN : AddOldDeleted(t, ok)
  \/ \E t \in Tasks, ok \in BOOLEAN : AddSummarySent(t, ok)
  \/ \E t \in Tasks, ok \in BOOLEAN : AddFullReplied(t, ok)
  \/ \E t \in Tasks, ok \in BOOLEAN : AddErrorReplied(t, ok)
  \/ \E u \in Users, m \in QueryMsgs, ok \in BOOLEAN : MergeAddVideo(u, m, ok)
  \/ \E u \in Users, m \in QueryMsgs, ok \in BOOLEAN : MergeClear(u, m, ok)
  \/ \E u \in Users, m \in QueryMsgs, ok \in BOOLEAN : MergeConfirm(u, m, ok)
  \/ \E u \in Users, m \in QueryMsgs, ok \in BOOLEAN : MergeMenu(u, m, ok)
  \/ \E u \in Users, md \in UploadModes : SelectUploadMode(u, md)
  \/ \E u \in Users, i \in 1..MaxLost : FileLost(u, i)
  \/ \E u \in Users : ExecStart(u)
  \/ \E t \in Tasks, ok \in BOOLEAN : ExecEdit0(t, ok)
  \/ \E t \in Tasks, ok \in BOOLEAN : ExecSend0(t, ok)
  \/ \E t \in Tasks : ExecPrepare(t)
  \/ \E t \in Tasks, ok \in BOOLEAN : ExecEdit5(t, ok)
  \/ \E t \in Tasks : FfmpegStart(t)
  \/ \E t \in Tasks, rc \in {"zero", "nonzero", "timeout"}, sz \in OutputSizes \cup {0} :
        ExecFfmpegDone(t, rc, sz)
  \/ \E t \in Tasks, ok \in BOOLEAN, f \in RemoveFaults : ExecFailFormatShown(t, ok, f)
  \/ \E t \in Tasks, ok \in BOOLEAN, f \in RemoveFaults : ExecFailCorruptShown(t, ok, f)
  \/ \E t \in Tasks, ok \in BOOLEAN, a \in BOOLEAN : ExecEdit95(t, ok, a)
  \/ \E t \in Tasks, ok \in BOOLEAN : ExecSent(t, ok)
  \/ \E t \in Tasks, ok \in BOOLEAN, f \in RemoveFaults : ExecDeleted(t, ok, f)
  \/ \E t \in Tasks, res \in RcloneResults, info \in RemoteNames \cup ErrorDetails :
        ExecRcloneReturned(t, res, info)
  \/ \E t \in Tasks, ok \in BOOLEAN, f \in RemoveFaults : ExecRcloneShown(t, ok, f)
  \/ \E t \in Tasks, ok \in BOOLEAN, f \in RemoveFaults : ExecInvalidShown(t, ok, f)
  \/ \E t \in Tasks, ok \in BOOLEAN, f \in RemoveFaults : ExecErrorShown(t, ok, f)
  \/ \E t \in Tasks : Retire(t)

Spec == Init /\ [][Next]_vars

\* video messages that arrive in quick succession are handled concurrently
InitAdds ==
  /\ cfg = [overlap |-> "adds", online |-> {1}, rmFaults |-> FALSE, chatFaults |-> FALSE,
            oldMenus |-> FALSE, modes |-> {NoneMode, Dict("telegram", "video"),
                                                Dict("rclone", Absent), Dict("ftp", Absent)}]
  /\ videos = [u \in Users |-> <<>>]
  /\ queue_message_id = [u \in Users |-> 0]
  /\ upload_mode = [u \in Users |-> NoneMode]
  /\ operation = [u \in Users |-> "None"]
  /\ disk = {}
  /\ concat = NoFile
  /\ output = NoFile
  /\ msgs = [u \in Users |-> [m \in MsgIds |-> "none"]]
  /\ task = [t \in Tasks |-> IdleTask]

SpecAdds == InitAdds /\ [][Next]_vars

\* the state after construction in the environment c
Start(c) ==
  /\ cfg = c
  /\ videos = [u \in Users |-> <<>>]
  /\ queue_message_id = [u \in Users |-> 0]
  /\ upload_mode = [u \in Users |-> NoneMode]
  /\ operation = [u \in Users |-> "None"]
  /\ disk = {}
  /\ concat = NoFile
  /\ output = NoFile
  /\ msgs = [u \in Users |-> [m \in MsgIds |-> "none"]]
  /\ task = [t \in Tasks |-> IdleTask]

\* one choice of upload mode per engine, and none
EngineModes ==
  {NoneMode, Dict("telegram", "video"), Dict("rclone", Absent), Dict("ftp", Absent)}

\* handlers run one after another; one upload mode per engine
InitLive ==
  Start([overlap |-> "none", online |-> {1}, rmFaults |-> FALSE, chatFaults |-> FALSE,
         oldMenus |-> FALSE, modes |-> EngineModes])

\* the step that resumes merge run t: the await it is suspended at has returned
\* or raised
MergeStep(t) ==
  \/ \E ok \in BOOLEAN : ExecEdit0(t, ok) \/ ExecSend0(t, ok) \/ ExecEdit5(t, ok) \/ ExecSent(t, ok)
  \/ ExecPrepare(t) \/ FfmpegStart(t)
  \/ \E rc \in {"zero", "nonzero", "timeout"}, sz \in OutputSizes \cup {0} :
        ExecFfmpegDone(t, rc, sz)
  \/ \E ok \in BOOLEAN, a \in BOOLEAN : ExecEdit95(t, ok, a)
  \/ \E res \in RcloneResults, info \in RemoteNames \cup ErrorDetails :
        ExecRcloneReturned(t, res, info)
  \/ \E ok \in BOOLEAN, f \in RemoveFaults :
        \/ ExecFailFormatShown(t, ok, f) \/ ExecFailCorruptShown(t, ok, f)
        \/ ExecDeleted(t, ok, f) \/ ExecRcloneShown(t, ok, f)
        \/ ExecInvalidShown(t, ok, f) \/ ExecErrorShown(t, ok, f)

\* every await of a merge run returns or raises: the collaborators respond, the
\* external merge ends or hits its timeout, and the event loop resumes the run
SpecLive == InitLive /\ [][Next]_vars /\ \A t \in Tasks : WF_vars(MergeStep(t))

\* a second merge trigger is served while a merge run is suspended at an await
InitMerges ==
  Start([overlap |-> "merges", online |-> {1}, rmFaults |-> FALSE, chatFaults |-> FALSE,
         oldMenus |-> FALSE, modes |-> EngineModes])

SpecMerges == InitMerges /\ [][Next]_vars

\* os.remove may raise
InitRm ==
  Start([overlap |-> "none", online |-> {1}, rmFaults |-> TRUE, chatFaults |-> FALSE,
         oldMenus |-> FALSE, modes |-> EngineModes])

SpecRm == InitRm /\ [][Next]_vars

\* ------------------------------------------------------------ claims
MergeRun(t) == task[t].kind = "merge" /\ task[t].outcome # "rejected"
Terminated(t) == task[t].pc = "done"

\* C1: every run of execute_smart_merge that passed its preconditions ends with
\* the user's queue empty, whatever the outcome.
C1_QueueEmptyAtTermination ==
  \A t \in Tasks :
    (MergeRun(t) /\ Terminated(t)) => videos[task[t].user] = <<>>

\* C2: at every terminal state of a pipeline run neither concat_list.txt nor
\* merged_video.mp4 exists in the temp folder.
C2_NoTempFilesAtTerminal ==
  \A t \in Tasks :
    (MergeRun(t) /\ Terminated(t)) => (~concat.exists /\ ~output.exists)

\* a run that wrote the manifest, got an output from the merge and then ended by
\* the timeout exception has terminated
C2_Witness ==
  \E t \in Tasks :
    /\ MergeRun(t) /\ Terminated(t)
    /\ task[t].concat_file /\ task[t].rc = "timeout" /\ task[t].size > 0

\* C3: a merge trigger whose preconditions are violated (no upload mode, fewer
\* than 2 videos) never leaves Idle, never writes the manifest, never invokes the
\* external merge, and leaves the videos and the bound summary id as they were.
C3_RejectedTriggerChangesNothing ==
  \A t \in Tasks :
    (/\ task[t].kind \in {"merge", "merge_confirm"}
     /\ (~Truthy(task[t].mode) \/ task[t].len0 < 2))
    => /\ task[t].pc = "done" /\ task[t].outcome = "rejected"
       /\ ~task[t].concat_file /\ task[t].wrote = <<>>
       /\ task[t].rc = "none" /\ ~task[t].read.exists
       /\ ~concat.exists /\ ~output.exists
       /\ videos[task[t].user] = task[t].queued
       /\ queue_message_id[task[t].user] = task[t].qmid0

\* execute_smart_merge was triggered with one video queued and a summary bound
C3_Witness ==
  \E t \in Tasks :
    /\ task[t].kind = "merge" /\ task[t].outcome = "rejected"
    /\ Truthy(task[t].mode) /\ task[t].len0 = 1 /\ task[t].qmid0 # 0

\* C4: the pipeline is never entered unless the upload mode's engine is set and,
\* for the telegram engine, the format is set too.
C4_EngineSetBeforePipeline ==
  \A t \in Tasks :
    MergeRun(t) =>
      /\ task[t].mode.engine # Absent
      /\ task[t].mode.engine = "telegram" => task[t].mode.format # Absent

DeliveryInvoked(t) == task[t].kind = "merge" /\ task[t].engine # "none"

\* C5 as stated: a delivery engine is invoked only after exit status 0 with an
\* output of more than 1024 bytes.
C5_DeliveryOnlyAbove1KiB ==
  \A t \in Tasks :
    DeliveryInvoked(t) => (task[t].rc = "zero" /\ task[t].size > MIN_OUTPUT_SIZE)

\* C5 amended: a delivery engine is invoked only after exit status 0 with an
\* output of at least 1024 bytes; a non-zero exit, a timeout, a missing output or
\* an output below 1024 bytes ends the run Failed with no delivery.
C5_DeliveryOnlyAfterValidOutput ==
  \A t \in Tasks :
    /\ DeliveryInvoked(t) => (task[t].rc = "zero" /\ task[t].size >= MIN_OUTPUT_SIZE)
    /\ (/\ MergeRun(t) /\ Terminated(t)
        /\ (task[t].rc \in {"nonzero", "timeout"} \/ task[t].size < MIN_OUTPUT_SIZE))
       => (task[t].outcome = "failed" /\ task[t].engine = "none"
           /\ task[t].delivery = "none" /\ task[t].sent = "none")

\* an output of exactly 1024 bytes was handed to a delivery engine
C5_Witness ==
  \E t \in Tasks : DeliveryInvoked(t) /\ task[t].size = MIN_OUTPUT_SIZE

\* C6: 0 <= |videos| <= 20 always; a video-add with valid metadata appends
\* (size + 1) iff the size was below 20, and otherwise is answered with the
\* "Max 20 videos" message, the size unchanged and no exception raised.
C6_CapacityAndAddOutcome ==
  /\ \A u \in Users : Len(videos[u]) \in 0..MAX_QUEUE_SIZE
  /\ \A t \in Tasks :
       (task[t].kind = "add" /\ task[t].valid) =>
         LET n == Len(videos[task[t].user])
         IN IF task[t].len0 < MAX_QUEUE_SIZE
            THEN /\ n = task[t].len0 + 1
                 /\ task[t].pc # "a_reply_full" /\ task[t].said # "max_20_videos"
            ELSE /\ n = task[t].len0
                 /\ task[t].pc \in {"a_reply_full", "a_reply_error", "done"}
                 /\ task[t].outcome # "added"
                 /\ task[t].outcome = "rejected" =>
                      (task[t].said = "max_20_videos" /\ ~task[t].raised)

\* a video-add was rejected with the "Max 20 videos" message on a full queue
C6_Witness ==
  \E t \in Tasks :
    /\ task[t].kind = "add" /\ task[t].said = "max_20_videos"
    /\ Len(videos[task[t].user]) = MAX_QUEUE_SIZE

\* C7: the manifest written in PreparingManifest has exactly |videos| lines, the
\* i-th being file '<absolute path of the i-th queued video>', and the queue
\* order is the order in which the videos were added.
C7_ManifestListsQueueInOrder ==
  /\ \A t \in Tasks :
       (task[t].kind = "merge" /\ task[t].pc \in {"m_edit5", "m_ffmpeg", "m_ffmpeg_run"}) =>
         LET q == videos[task[t].user]
         IN /\ concat.exists
            /\ Len(concat.lines) = Len(q)
            /\ \A i \in 1..Len(q) :
                 concat.lines[i] = [directive |-> "file", path |-> <<"cwd", q[i].file_path>>]
            /\ task[t].pc = "m_ffmpeg_run" => task[t].read = concat
  /\ \A t \in Tasks :
       (task[t].kind = "add" /\ task[t].valid /\ task[t].len0 < MAX_QUEUE_SIZE) =>
         videos[task[t].user] = Append(task[t].queued, [file_path |-> task[t].filepath])

\* the external merge is reading a manifest written for three or more videos
C7_Witness ==
  \E t \in Tasks :
    /\ task[t].kind = "merge" /\ task[t].pc = "m_ffmpeg_run"
    /\ Len(videos[task[t].user]) >= 3 /\ Len(task[t].read.lines) >= 3

\* C8: a non-zero exit and the timeout both end the run Failed with the generic
\* incompatible-format message on the status surface; the captured detail
\* (stderr, exception text) is never shown to the user.
C8_TimeoutHandledLikeNonZeroExit ==
  \A t \in Tasks :
    (MergeRun(t) /\ Terminated(t) /\ task[t].rc \in {"nonzero", "timeout"}) =>
      /\ task[t].outcome = "failed"
      /\ task[t].surface \in {"merge_failed_format", "p0", "p5"}
      /\ task[t].said # "merge_error"

\* the terminal result of a run in which every status-display operation succeeds:
\* <<delivered, queue cleared>>
UndisturbedResult(tr) ==
  IF tr.rc # "zero" \/ tr.size < MIN_OUTPUT_SIZE THEN <<FALSE, FALSE>>
  ELSE IF DispatchEngine(tr.mode) = "telegram"
       THEN IF tr.delivery = "delivered" THEN <<TRUE, TRUE>> ELSE <<FALSE, FALSE>>
  ELSE <<tr.delivery = "delivered", TRUE>>

\* C9: a failure of a status-display operation (create, update, dismiss) never
\* aborts the pipeline nor changes its outcome: the run ends as the run in which
\* the display operation succeeded.
C9_DisplayFailureChangesNothing ==
  \A t \in Tasks :
    (MergeRun(t) /\ Terminated(t)) =>
      /\ task[t].rc # "none"
      /\ <<task[t].outcome = "completed", task[t].cleared>> = UndisturbedResult(task[t])

LiveSummaries(u) == {m \in MsgIds : msgs[u][m] = "summary"}

\* C10: at any time a user has at most one live queue-summary message, and
\* queue_message_id identifies it.
C10_SingleLiveSummary ==
  \A u \in Users :
    /\ Cardinality(LiveSummaries(u)) <= 1
    /\ \A m \in LiveSummaries(u) : queue_message_id[u] = m

ProgressTexts == {"p0", "p5", "p95"}

\* C11: once chat-native delivery has succeeded the status surface ends dismissed,
\* and once remote-storage delivery has reported success it ends showing the
\* success text with the remote name the upload returned; no later step of the
\* run puts another text on it (a closing display operation that fails may at
\* worst leave the progress text standing).
C11_TerminalStatusStands ==
  \A t \in Tasks :
    (/\ MergeRun(t) /\ Terminated(t)
     /\ task[t].mode.engine # Absent /\ task[t].delivery = "delivered") =>
      IF task[t].engine = "telegram"
      THEN task[t].surface \in {"dismissed"} \cup ProgressTexts
      ELSE \/ task[t].surface \in ProgressTexts
           \/ /\ task[t].surface = "rclone_done"
              /\ task[t].remote # Absent => task[t].detail = task[t].remote

\* C12: an upload mode whose engine is neither telegram nor rclone is a fatal
\* configuration error at both entry points (merge_confirm, execute_smart_merge):
\* no delivery variant is invoked and the error is reported to the user (something
\* is said or shown, unless the display operation itself failed).
C12_UnknownEngineReported ==
  \A t \in Tasks :
    (/\ task[t].kind \in {"merge", "merge_confirm"} /\ Terminated(t)
     /\ task[t].len0 >= 2 /\ Truthy(task[t].mode)
     /\ task[t].mode.engine \notin {"telegram", "rclone", Absent})
    => /\ task[t].engine = "none" /\ task[t].sent = "none"
       /\ task[t].delivery = "none"
       /\ \/ task[t].surface = "invalid_mode"
          \/ task[t].said # "none"
          \/ task[t].closing = "failed"

Pcts(t) == [i \in 1..Len(task[t].markers) |-> task[t].markers[i].pct]
StrictlyIncreasing(sq) == \A i \in 1..(Len(sq) - 1) : sq[i] < sq[i + 1]
OneSurface(t) ==
  \A i \in 1..Len(task[t].markers) : task[t].markers[i].on = task[t].status_on
Delivered(t) == MergeRun(t) /\ Terminated(t) /\ task[t].outcome = "completed"

\* C13 as stated: the progress markers of a run are strictly increasing, drawn
\* from 0%, 5%, 95%, 100%, all on one status message, and a run that ends in
\* successful delivery has shown all four, ending with 100%.
C13_ProgressMarkersUpTo100 ==
  \A t \in Tasks :
    MergeRun(t) =>
      /\ StrictlyIncreasing(Pcts(t)) /\ OneSurface(t)
      /\ \A i \in 1..Len(Pcts(t)) : Pcts(t)[i] \in {0, 5, 95, 100}
      /\ Delivered(t) => Pcts(t) = <<0, 5, 95, 100>>

\* C13 amended: the progress markers of a run are strictly increasing, drawn from
\* 0%, 5%, 95%, all on one status message; a run that ends in successful delivery
\* has shown 0%, then 5%, then 95%, except for a marker whose update failed (0% is
\* never among those); no 100% marker is shown.
C13_ProgressMarkersIncrease ==
  \A t \in Tasks :
    MergeRun(t) =>
      /\ StrictlyIncreasing(Pcts(t)) /\ OneSurface(t)
      /\ \A i \in 1..Len(Pcts(t)) : Pcts(t)[i] \in {0, 5, 95}
      /\ Delivered(t) =>
           /\ {Pcts(t)[i] : i \in 1..Len(Pcts(t))} = {0, 5, 95} \ task[t].missed
           /\ 0 \notin task[t].missed

\* a delivered run showed 0%, 5% and 95% on a status message that the fallback
\* send_message created
C13_Witness ==
  \E t \in Tasks :
    Delivered(t) /\ Pcts(t) = <<0, 5, 95>> /\ task[t].status_on = "fresh"

\* C14: a rejected video-add (file missing, probe failure, queue full) leaves the
\* queue's videos and its bound summary id as they were; after a probe failure
\* the offending file is gone from storage and the user has been told (unless no
\* reply could be sent at all).
C14_RejectedAddFrame ==
  \A t \in Tasks :
    (task[t].kind = "add" /\ task[t].why # "none") =>
      /\ videos[task[t].user] = task[t].queued
      /\ queue_message_id[task[t].user] = task[t].qmid0
      /\ (Terminated(t) /\ task[t].why = "probe") =>
           /\ task[t].filepath \notin disk
           /\ task[t].said # "none" \/ task[t].raised

ClearedBy(t) == task[t].kind = "merge_clear" /\ Terminated(t)
\* this step serves a merge_clear callback of user u
ClearStep(u) ==
  \E t \in Tasks :
    task[t].pc = "idle" /\ task'[t].kind = "merge_clear" /\ task'[t].user = u

\* C15: clear_all as triggered by merge_clear, from any queue state (empty, or
\* with files already missing), leaves no video queued, no summary id bound and
\* none of the files the queue listed on storage; applied to a queue that is
\* already clear it changes nothing, so twice is the same as once.
C15_ClearAllIdempotent ==
  /\ [](\A t \in Tasks :
          ClearedBy(t) =>
            /\ videos[task[t].user] = <<>>
            /\ queue_message_id[task[t].user] = 0
            /\ QueuePaths(task[t].queued) \cap disk = {})
  /\ [][\A u \in Users :
          (ClearStep(u) /\ videos[u] = <<>> /\ queue_message_id[u] = 0) =>
            (videos' = videos /\ queue_message_id' = queue_message_id /\ disk' = disk)]_vars

\* merge_clear was served on a queue of several videos, one of whose files was
\* already missing, with a summary message bound
C15_Witness ==
  \E t \in Tasks :
    /\ ClearedBy(t) /\ task[t].len0 >= 2 /\ task[t].qmid0 # 0
    /\ task[t].lost0 # {} /\ task[t].lost0 # QueuePaths(task[t].queued)

Running(t) == task[t].kind = "merge" /\ task[t].pc \notin {"idle", "done"}
\* the user has been told how the run ended: the video itself, or a closing text
Reported(t) ==
  \/ task[t].sent # "none"
  \/ task[t].surface \in {"merge_failed_format", "merge_failed_corrupt", "invalid_mode",
                          "merge_error", "rclone_done", "rclone_failed", "rclone_missing"}
  \/ task[t].said = "merge_error"

\* C16: a merge trigger that passed the preconditions eventually ends delivered
\* or failed, whatever the collaborators answer; the run never stays in a stage
\* forever, and when it has ended the result was reported to the user (unless
\* the closing display operation itself failed).
C16_MergeRunTerminates ==
  /\ \A t \in Tasks :
       Running(t) ~> (Terminated(t) /\ task[t].outcome \in {"completed", "failed"})
  /\ [](\A t \in Tasks :
          (MergeRun(t) /\ Terminated(t)) =>
            /\ task[t].outcome \in {"completed", "failed"}
            /\ Reported(t) \/ task[t].closing = "failed")

\* a run ended Failed by the timeout of the external merge and said so
C16_Witness ==
  \E t \in Tasks :
    /\ MergeRun(t) /\ Terminated(t) /\ task[t].rc = "timeout"
    /\ task[t].outcome = "failed" /\ task[t].surface = "merge_error"

\* C17: in remote-storage delivery an unavailable upload capability (ImportError)
\* ends with the "handler not found" text, an upload that returns success=false
\* or raises ends with the "upload failed" text carrying the error detail; the
\* two never show the same text, and neither lets an exception reach the
\* pipeline (the cleanup after the dispatch runs).
C17_RcloneFailuresDistinct ==
  \A t \in Tasks :
    (MergeRun(t) /\ Terminated(t) /\ task[t].engine = "rclone") =>
      /\ ~task[t].errored /\ task[t].cleared
      /\ task[t].delivery = "unavailable" =>
           task[t].surface \in {"rclone_missing"} \cup ProgressTexts
      /\ task[t].delivery = "failed" =>
           /\ task[t].surface \in {"rclone_failed"} \cup ProgressTexts
           /\ (task[t].surface = "rclone_failed" /\ task[t].error # Absent) =>
                task[t].detail = task[t].error

\* an upload that failed with a detail ended with the "upload failed" text
C17_Witness ==
  \E t \in Tasks :
    /\ MergeRun(t) /\ Terminated(t) /\ task[t].engine = "rclone"
    /\ task[t].delivery = "failed" /\ task[t].surface = "rclone_failed"
    /\ task[t].detail = "quota exceeded"

\* C18: when two pipeline runs overlap, the manifest each run's external merge
\* reads lists that run's own queued videos in order, the artifact each run
\* hands to delivery is the output of its own invocation, and no run's cleanup
\* removes the manifest or the output another run still needs.
C18_OverlappingRunsIsolated ==
  \A t \in Tasks :
    task[t].kind = "merge" =>
      /\ task[t].pc \in {"m_edit5", "m_ffmpeg"} => concat.exists
      /\ task[t].pc = "m_ffmpeg_run" =>
           (task[t].read.exists /\ task[t].read.lines = Manifest(task[t].queued))
      /\ task[t].pc = "m_edit95" => (output.exists /\ output.by = t)
      /\ task[t].pc \in {"m_send", "m_rclone"} => task[t].artifact = t

\* C19: an os.remove that raises during Cleanup is swallowed: the run still ends
\* with the outcome its delivery had, no error text replaces what was reported,
\* and the failure to remove one artifact does not keep the other from being
\* removed.
C19_CleanupFailureContained ==
  \A t \in Tasks :
    (MergeRun(t) /\ Terminated(t) /\ task[t].fault # "none") =>
      /\ task[t].cleared =>
           /\ ~task[t].errored /\ task[t].surface # "merge_error"
           /\ task[t].outcome = "completed" <=> task[t].delivery = "delivered"
      /\ task[t].fault = "output" => ~(task[t].concat_file /\ concat.exists)
      /\ task[t].fault = "concat" => ~(task[t].output_file /\ output.exists)

\* C20: whenever process_merge_video has finished handling a video-add, by any
\* path (file missing, probe error, added, queue full, an exception while sending
\* a reply), the session's operation flag is None again.
C20_OperationFlagReset ==
  \A t \in Tasks :
    (task[t].kind = "add" /\ Terminated(t)) => operation[task[t].user] = "None"

====
